---- MODULE Spec2Model ----
(***************************************************************************)
(* Model of src/sofie_asset_transfer/interledger.py: the Interledger       *)
(* engine (Transfer, Interledger, StateInterledger) running on one asyncio *)
(* event loop, with the Initiator and Responder adapters as environment.   *)
(***************************************************************************)
EXTENDS Integers, Sequences, FiniteSets, TLC

\* ---------------------------------------------------------------- bounds
\* Transfer objects the engine ever holds before get_transfers() stops
\* delivering new ones.
MaxTransfers == 2
\* Largest list one get_transfers() call returns.
MaxBatch == 2
\* receive_transfer() tasks left behind by run() that are tracked; a further one
\* is dropped.
MaxStale == 1
\* Asset ids 1..MaxAsset and longest query_by_state() answer, when the
\* constructor is checked over all ledger answers.
MaxAsset == 3
MaxLen == 2

Assets == 1..MaxAsset

\* ------------------------------------------------------------- state
VARIABLES
    engine,             \* class constructed: "Interledger" | "StateInterledger"
    initiator_out,      \* initiator.query_by_state(TRANSFER_OUT)
    responder_not_here, \* responder.query_by_state(NOT_HERE)
    responder_here,     \* responder.query_by_state(HERE)
    heap,               \* the Transfer objects, by object identity 1..Len(heap)
    transfers,          \* self.transfers: list of Transfer objects
    transfers_sent,     \* self.transfers_sent
    pending,            \* self.pending
    keep_running,       \* self.keep_running
    results_commit,     \* self.results_commit
    results_abort,      \* self.results_abort
    commit_calls,       \* initiator.commit_transfer(t) requests, in order
    abort_calls,        \* initiator.abort_transfer(t) requests, in order
    pc,                 \* position of run()
    receive,            \* the task `receive` of the current iteration
    result,             \* the task `result` of the current iteration
    result_futures,     \* `futures` of that task: length of the snapshot
    stale_receives,     \* receive_transfer() tasks left behind by run()
    stale_results       \* transfer_result() tasks left behind: their snapshot
                        \* lengths (tasks over the same futures wake on the same
                        \* completion and run back to back, so they count once)

vars == <<engine, initiator_out, responder_not_here, responder_here, heap,
          transfers, transfers_sent, pending, keep_running, results_commit,
          results_abort, commit_calls, abort_calls, pc, receive, result,
          result_futures, stale_receives, stale_results>>

ledger == <<engine, initiator_out, responder_not_here, responder_here>>
lists == <<transfers, transfers_sent, pending>>
debug == <<results_commit, results_abort, commit_calls, abort_calls>>
tasks == <<receive, result, result_futures, stale_receives, stale_results>>

\* ------------------------------------------------------------- helpers
Range(s) == {s[i] : i \in 1..Len(s)}

SeqsUpTo(S, n) == UNION {[1..k -> S] : k \in 0..n}

\* list(some_set): the elements once each, in an order the build chooses.
ListsOf(S) == {s \in [1..Cardinality(S) -> S] : Range(s) = S}

Count(s, x) == Cardinality({i \in 1..Len(s) : s[i] = x})

\* class State
State == {"READY", "SENT", "COMPLETED", "PROCESSED"}

\* Transfer.__init__
Transfer == [future |-> "None", result |-> "None", state |-> "READY", data |-> 0]

\* t.future.done()
Done(f) == f \in {"True", "False", "raised"}

\* ------------------------------------------------------------- Init
\* The state before the constructor runs.
Blank ==
    /\ heap = <<>>
    /\ transfers = <<>>
    /\ transfers_sent = <<>>
    /\ pending = 0
    /\ keep_running = TRUE
    /\ results_commit = <<>>
    /\ results_abort = <<>>
    /\ commit_calls = <<>>
    /\ abort_calls = <<>>
    /\ pc = "new"
    /\ receive = "none"
    /\ result = "none"
    /\ result_futures = 0
    /\ stale_receives = 0
    /\ stale_results = {}

\* Ledger answers of the engines that are run: asset 1 is outbound and may be
\* missing at the Responder, asset 2 is outbound and may be there already.
RunLedgers ==
    {[out |-> <<1, 2>>, not_here |-> n, here |-> h] :
        n \in {<<>>, <<1>>}, h \in {<<>>, <<2>>}} \ 
    {[out |-> <<1, 2>>, not_here |-> <<>>, here |-> <<>>]}

\* A plain engine, whose ledgers are never queried, or a state-aware one.
Init ==
    /\ Blank
    /\ \/ /\ engine = "Interledger"
          /\ initiator_out = <<>>
          /\ responder_not_here = <<>>
          /\ responder_here = <<>>
       \/ /\ engine = "StateInterledger"
          /\ \E l \in RunLedgers :
               /\ initiator_out = l.out
               /\ responder_not_here = l.not_here
               /\ responder_here = l.here

\* A state-aware engine over every ledger answer within the bounds.
InitRecovery ==
    /\ Blank
    /\ engine = "StateInterledger"
    /\ initiator_out \in SeqsUpTo(Assets, MaxLen)
    /\ responder_not_here \in SeqsUpTo(Assets, MaxLen)
    /\ responder_here \in SeqsUpTo(Assets, MaxLen)

\* ------------------------------------------------------------- recovery
\* restore_pending_transfers_ready filtering the Initiator's list in place of
\* intersecting sets
RestoreReadyNoSet ==
    {[i \in 1..Len(l) |-> [Transfer EXCEPT !.data = l[i]]] :
        l \in {SelectSeq(initiator_out, LAMBDA a : a \in Range(responder_not_here))}}

\* StateInterledger.restore_pending_transfers_ready: the lists it may return
restore_pending_transfers_ready ==
    LET ids == Range(initiator_out) \cap Range(responder_not_here)
    IN  {[i \in 1..Len(l) |-> [Transfer EXCEPT !.data = l[i]]] : l \in ListsOf(ids)}

\* restore_pending_transfers_sent leaving out `t.result = True`
RestoreSentNoResult ==
    LET ids == Range(initiator_out) \cap Range(responder_here)
    IN  {[i \in 1..Len(l) |->
            [Transfer EXCEPT !.data = l[i], !.state = "COMPLETED"]]
         : l \in ListsOf(ids)}

\* StateInterledger.restore_pending_transfers_sent: the lists it may return
restore_pending_transfers_sent ==
    LET ids == Range(initiator_out) \cap Range(responder_here)
    IN  {[i \in 1..Len(l) |->
            [Transfer EXCEPT !.data = l[i], !.state = "COMPLETED", !.result = "True"]]
         : l \in ListsOf(ids)}

\* StateInterledger.__init__, and Interledger.__init__ which it starts with
Construct ==
    /\ pc = "new"
    /\ pc' = "top"
    /\ keep_running' = TRUE
    /\ results_abort' = <<>>
    /\ results_commit' = <<>>
    /\ IF engine = "Interledger"
       THEN /\ heap' = <<>>
            /\ transfers' = <<>>
            /\ transfers_sent' = <<>>
            /\ pending' = 0
       ELSE \E ready \in restore_pending_transfers_ready,
               sent \in restore_pending_transfers_sent :
            /\ heap' = ready \o sent
            /\ transfers' = [i \in 1..Len(ready) |-> i]
            /\ transfers_sent' = [i \in 1..Len(sent) |-> Len(ready) + i]
            /\ pending' = 0 + Len(sent)
    /\ UNCHANGED <<ledger, commit_calls, abort_calls, tasks>>

\* Interledger.stop
stop ==
    /\ pc # "new"
    /\ keep_running
    /\ keep_running' = FALSE
    /\ UNCHANGED <<ledger, heap, lists, results_commit, results_abort,
                   commit_calls, abort_calls, pc, tasks>>

\* ------------------------------------------------------------- stages
\* send_transfer without `self.transfers_sent.append(t)`
RECURSIVE SendLoopNoAppend(_, _, _, _)
SendLoopNoAppend(i, h, s, p) ==
    IF i > Len(transfers)
    THEN [heap |-> h, transfers_sent |-> s, pending |-> p]
    ELSE LET t == transfers[i] IN
         IF h[t].state = "READY"
         THEN SendLoopNoAppend(i + 1,
                       [h EXCEPT ![t].state = "SENT", ![t].future = "pending"],
                       s, p + 1)
         ELSE SendLoopNoAppend(i + 1, h, s, p)

\* send_transfer without `self.pending += 1`
RECURSIVE SendLoopNoCount(_, _, _, _)
SendLoopNoCount(i, h, s, p) ==
    IF i > Len(transfers)
    THEN [heap |-> h, transfers_sent |-> s, pending |-> p]
    ELSE LET t == transfers[i] IN
         IF h[t].state = "READY"
         THEN SendLoopNoCount(i + 1,
                       [h EXCEPT ![t].state = "SENT", ![t].future = "pending"],
                       Append(s, t), p)
         ELSE SendLoopNoCount(i + 1, h, s, p)

\* Interledger.send_transfer, the loop from position i on
RECURSIVE SendLoop(_, _, _, _)
SendLoop(i, h, s, p) ==
    IF i > Len(transfers)
    THEN [heap |-> h, transfers_sent |-> s, pending |-> p]
    ELSE LET t == transfers[i] IN
         IF h[t].state = "READY"
         THEN SendLoop(i + 1,
                       [h EXCEPT ![t].state = "SENT", ![t].future = "pending"],
                       Append(s, t), p + 1)
         ELSE SendLoop(i + 1, h, s, p)

\* transfer_result without the test `t.state == State.SENT`
RECURSIVE ResultLoopNoStateTest(_, _)
ResultLoopNoStateTest(i, h) ==
    IF i > Len(transfers_sent)
    THEN [heap |-> h, raised |-> FALSE]
    ELSE LET t == transfers_sent[i] IN
         IF Done(h[t].future)
         THEN IF h[t].future = "raised"
              THEN [heap |-> h, raised |-> TRUE]
              ELSE ResultLoopNoStateTest(i + 1,
                     [h EXCEPT ![t].result = h[t].future, ![t].state = "COMPLETED"])
         ELSE ResultLoopNoStateTest(i + 1, h)

\* transfer_result storing the result of the first dispatched transfer
RECURSIVE ResultLoopFirst(_, _)
ResultLoopFirst(i, h) ==
    IF i > Len(transfers_sent)
    THEN [heap |-> h, raised |-> FALSE]
    ELSE LET t == transfers_sent[i] IN
         IF h[t].state = "SENT" /\ ~(h[t].state = "COMPLETED") /\ Done(h[t].future)
         THEN IF h[t].future = "raised"
              THEN [heap |-> h, raised |-> TRUE]
              ELSE ResultLoopFirst(i + 1,
                     [h EXCEPT ![t].result =
                                  IF h[transfers_sent[1]].future = "True"
                                  THEN "True" ELSE "False",
                               ![t].state = "COMPLETED"])
         ELSE ResultLoopFirst(i + 1, h)

\* Interledger.transfer_result, the loop after the wait, from position i on;
\* t.future.result() re-raises what the Responder's receive_transfer raised.
RECURSIVE ResultLoop(_, _)
ResultLoop(i, h) ==
    IF i > Len(transfers_sent)
    THEN [heap |-> h, raised |-> FALSE]
    ELSE LET t == transfers_sent[i] IN
         IF h[t].state = "SENT" /\ ~(h[t].state = "COMPLETED") /\ Done(h[t].future)
         THEN IF h[t].future = "raised"
              THEN [heap |-> h, raised |-> TRUE]
              ELSE ResultLoop(i + 1,
                     [h EXCEPT ![t].result = h[t].future, ![t].state = "COMPLETED"])
         ELSE ResultLoop(i + 1, h)

\* process_result taking SENT transfers as well as COMPLETED ones
RECURSIVE ProcessLoopSentToo(_, _)
ProcessLoopSentToo(i, a) ==
    IF i > Len(transfers_sent)
    THEN a
    ELSE LET t == transfers_sent[i] IN
         IF a.heap[t].state \in {"SENT", "COMPLETED"}
         THEN LET b == IF a.heap[t].result = "True"
                       THEN [a EXCEPT !.commit_calls = Append(@, t),
                                      !.results_commit = Append(@, a.heap[t].result)]
                       ELSE [a EXCEPT !.abort_calls = Append(@, t),
                                      !.results_abort = Append(@, a.heap[t].result)]
              IN  ProcessLoopSentToo(i + 1,
                     [b EXCEPT !.heap[t].state = "PROCESSED", !.pending = @ - 1])
         ELSE ProcessLoopSentToo(i + 1, a)

\* process_result without `t.state = State.PROCESSED`
RECURSIVE ProcessLoopNoMark(_, _)
ProcessLoopNoMark(i, a) ==
    IF i > Len(transfers_sent)
    THEN a
    ELSE LET t == transfers_sent[i] IN
         IF a.heap[t].state = "COMPLETED"
         THEN LET b == IF a.heap[t].result = "True"
                       THEN [a EXCEPT !.commit_calls = Append(@, t),
                                      !.results_commit = Append(@, a.heap[t].result)]
                       ELSE [a EXCEPT !.abort_calls = Append(@, t),
                                      !.results_abort = Append(@, a.heap[t].result)]
              IN  ProcessLoopNoMark(i + 1, [b EXCEPT !.pending = @ - 1])
         ELSE ProcessLoopNoMark(i + 1, a)

\* Interledger.process_result, the loop from position i on
RECURSIVE ProcessLoop(_, _)
ProcessLoop(i, a) ==
    IF i > Len(transfers_sent)
    THEN a
    ELSE LET t == transfers_sent[i] IN
         IF a.heap[t].state = "COMPLETED"
         THEN LET b == IF a.heap[t].result = "True"
                       THEN [a EXCEPT !.commit_calls = Append(@, t),
                                      !.results_commit = Append(@, a.heap[t].result)]
                       ELSE [a EXCEPT !.abort_calls = Append(@, t),
                                      !.results_abort = Append(@, a.heap[t].result)]
              IN  ProcessLoop(i + 1,
                     [b EXCEPT !.heap[t].state = "PROCESSED", !.pending = @ - 1])
         ELSE ProcessLoop(i + 1, a)

\* Interledger.transfer_result up to its await: asyncio.wait() raises on an
\* empty list and on a list holding None instead of a future.
TransferResultStart ==
    IF \/ Len(transfers_sent) = 0
       \/ \E i \in 1..Len(transfers_sent) : heap[transfers_sent[i]].future = "None"
    THEN "failed"
    ELSE "waiting"

\* asyncio.wait(futures, return_when=FIRST_COMPLETED) over the first n entries
FirstCompleted(n) ==
    \E i \in 1..n : Done(heap[transfers_sent[i]].future)

\* ------------------------------------------------------------- run()
\* run: `while self.keep_running` is false
RunExit ==
    /\ pc = "top"
    /\ ~keep_running
    /\ pc' = "done"
    /\ UNCHANGED <<ledger, heap, lists, keep_running, debug, tasks>>

\* run looping on `while True`
RunIterateNoFlag ==
    /\ pc = "top"
    /\ receive' = "polling"
    /\ IF pending = 0
       THEN /\ pc' = "await_receive"
            /\ UNCHANGED <<result, result_futures>>
       ELSE /\ pc' = "wait_any"
            /\ result' = TransferResultStart
            /\ result_futures' = Len(transfers_sent)
    /\ UNCHANGED <<ledger, heap, lists, keep_running, debug,
                   stale_receives, stale_results>>

\* run: start of an iteration, up to its blocking wait
RunIterate ==
    /\ pc = "top"
    /\ keep_running
    /\ receive' = "polling"
    /\ IF pending = 0
       THEN /\ pc' = "await_receive"
            /\ UNCHANGED <<result, result_futures>>
       ELSE /\ pc' = "wait_any"
            /\ result' = TransferResultStart
            /\ result_futures' = Len(transfers_sent)
    /\ UNCHANGED <<ledger, heap, lists, keep_running, debug,
                   stale_receives, stale_results>>

\* run: `await receive` returns, or re-raises what the task raised
AwaitReceive ==
    /\ pc = "await_receive"
    /\ receive \in {"done", "failed"}
    /\ pc' = IF receive = "done" THEN "send" ELSE "raised"
    /\ receive' = "none"
    /\ UNCHANGED <<ledger, heap, lists, keep_running, debug, result,
                   result_futures, stale_receives, stale_results>>

\* run: `await asyncio.wait([receive, result], FIRST_COMPLETED)` returns; its
\* return value is dropped and the task still running is left behind.
WaitAny ==
    /\ pc = "wait_any"
    /\ receive \in {"done", "failed"} \/ result \in {"done", "failed"}
    /\ pc' = "send"
    /\ stale_receives' = IF receive = "polling" /\ stale_receives < MaxStale
                         THEN stale_receives + 1 ELSE stale_receives
    /\ stale_results' = IF result = "waiting"
                        THEN stale_results \cup {result_futures}
                        ELSE stale_results
    /\ receive' = "none"
    /\ result' = "none"
    /\ result_futures' = 0
    /\ UNCHANGED <<ledger, heap, lists, keep_running, debug>>

\* run: the task `send`
send_transfer ==
    /\ pc = "send"
    /\ LET r == SendLoop(1, heap, transfers_sent, pending) IN
       /\ heap' = r.heap
       /\ transfers_sent' = r.transfers_sent
       /\ pending' = r.pending
    /\ pc' = "process"
    /\ UNCHANGED <<ledger, transfers, keep_running, debug, tasks>>

\* run: the task `process`, which the event loop runs right after `send`
process_result ==
    /\ pc = "process"
    /\ LET r == ProcessLoop(1, [heap |-> heap, pending |-> pending,
                                results_commit |-> results_commit,
                                results_abort |-> results_abort,
                                commit_calls |-> commit_calls,
                                abort_calls |-> abort_calls]) IN
       /\ heap' = r.heap
       /\ pending' = r.pending
       /\ results_commit' = r.results_commit
       /\ results_abort' = r.results_abort
       /\ commit_calls' = r.commit_calls
       /\ abort_calls' = r.abort_calls
    /\ pc' = "top"
    /\ UNCHANGED <<ledger, transfers, transfers_sent, keep_running, tasks>>

\* ------------------------------------------------ tasks and adapters
\* Other tasks run whenever run() is suspended; `send` and `process` are
\* queued back to back, so nothing runs between them.
Suspended == pc \notin {"new", "process"}

\* Interledger.receive_transfer after get_transfers() returned n transfers
ReceiveLists(n) ==
    [heap |-> heap \o [i \in 1..n |-> Transfer],
     transfers |-> IF n > 0
                   THEN transfers \o [i \in 1..n |-> Len(heap) + i]
                   ELSE transfers]

\* the task `receive` of the current iteration completes
receive_transfer ==
    /\ Suspended
    /\ receive = "polling"
    /\ \E n \in 0..MaxBatch :
         /\ Len(heap) + n <= MaxTransfers
         /\ heap' = ReceiveLists(n).heap
         /\ transfers' = ReceiveLists(n).transfers
    /\ receive' = "done"
    /\ UNCHANGED <<ledger, transfers_sent, pending, keep_running, debug, pc,
                   result, result_futures, stale_receives, stale_results>>

\* initiator.get_transfers() raises in the task `receive`
receive_transfer_raise ==
    /\ Suspended
    /\ receive = "polling"
    /\ receive' = "failed"
    /\ UNCHANGED <<ledger, heap, lists, keep_running, debug, pc,
                   result, result_futures, stale_receives, stale_results>>

\* a receive_transfer() task of an earlier iteration completes
stale_receive_transfer ==
    /\ Suspended
    /\ stale_receives > 0
    /\ \E n \in 0..MaxBatch :
         /\ Len(heap) + n <= MaxTransfers
         /\ heap' = ReceiveLists(n).heap
         /\ transfers' = ReceiveLists(n).transfers
    /\ stale_receives' = stale_receives - 1
    /\ UNCHANGED <<ledger, transfers_sent, pending, keep_running, debug, pc,
                   receive, result, result_futures, stale_results>>

\* initiator.get_transfers() raises in a task of an earlier iteration
stale_receive_transfer_raise ==
    /\ Suspended
    /\ stale_receives > 0
    /\ stale_receives' = stale_receives - 1
    /\ UNCHANGED <<ledger, heap, lists, keep_running, debug, pc,
                   receive, result, result_futures, stale_results>>

\* responder.receive_transfer(t) returns r
ResponderReturn ==
    /\ Suspended
    /\ \E t \in 1..Len(heap), r \in {"True", "False"} :
         /\ heap[t].future = "pending"
         /\ heap' = [heap EXCEPT ![t].future = r]
    /\ UNCHANGED <<ledger, lists, keep_running, debug, pc, tasks>>

\* responder.receive_transfer(t) raises
ResponderRaise ==
    /\ Suspended
    /\ \E t \in 1..Len(heap) :
         /\ heap[t].future = "pending"
         /\ heap' = [heap EXCEPT ![t].future = "raised"]
    /\ UNCHANGED <<ledger, lists, keep_running, debug, pc, tasks>>

\* the task `result` of the current iteration wakes up and completes
transfer_result ==
    /\ Suspended
    /\ result = "waiting"
    /\ FirstCompleted(result_futures)
    /\ heap' = ResultLoop(1, heap).heap
    /\ result' = IF ResultLoop(1, heap).raised THEN "failed" ELSE "done"
    /\ UNCHANGED <<ledger, lists, keep_running, debug, pc, receive,
                   result_futures, stale_receives, stale_results>>

\* a transfer_result() task of an earlier iteration wakes up and completes
stale_transfer_result ==
    /\ Suspended
    /\ \E n \in stale_results :
         /\ FirstCompleted(n)
         /\ stale_results' = stale_results \ {n}
    /\ heap' = ResultLoop(1, heap).heap
    /\ UNCHANGED <<ledger, lists, keep_running, debug, pc, receive, result,
                   result_futures, stale_receives>>

\* a transfer_result() task, of this or of an earlier iteration, completes
CollectPass == transfer_result \/ stale_transfer_result

Next ==
    \/ Construct
    \/ stop
    \/ RunExit
    \/ RunIterate
    \/ AwaitReceive
    \/ WaitAny
    \/ send_transfer
    \/ process_result
    \/ receive_transfer
    \/ receive_transfer_raise
    \/ stale_receive_transfer
    \/ stale_receive_transfer_raise
    \/ ResponderReturn
    \/ ResponderRaise
    \/ transfer_result
    \/ stale_transfer_result

Spec == Init /\ [][Next]_vars

\* The plain engine when stop() is never called, no adapter call raises, every
\* task that can run is run and every receive on the Responder returns; when
\* the Initiator delivers, and to which of its callers, is up to the Initiator.
\* A task other than run() cannot run while `process` is queued behind `send`,
\* so it is strongly fair: the event loop runs what is ready in turn.
InitPlain == Init /\ engine = "Interledger"

NextFair ==
    \/ Construct
    \/ RunIterate
    \/ AwaitReceive
    \/ WaitAny
    \/ send_transfer
    \/ process_result
    \/ receive_transfer
    \/ stale_receive_transfer
    \/ ResponderReturn
    \/ transfer_result
    \/ stale_transfer_result

SpecFair ==
    /\ InitPlain
    /\ [][NextFair]_vars
    /\ WF_vars(Construct)
    /\ WF_vars(RunIterate)
    /\ WF_vars(AwaitReceive)
    /\ WF_vars(WaitAny)
    /\ WF_vars(send_transfer)
    /\ WF_vars(process_result)
    /\ SF_vars(ResponderReturn)
    /\ SF_vars(CollectPass)

\* The plain engine alone.
SpecPlain == InitPlain /\ [][Next]_vars

\* The state-aware engine alone, run as SpecFair runs the plain one: stop is
\* never called, no adapter call raises, and the event loop's scheduling is
\* fair to run() and to the tasks that are ready.
InitState == Init /\ engine = "StateInterledger"

SpecFairState ==
    /\ InitState
    /\ [][NextFair]_vars
    /\ WF_vars(Construct)
    /\ WF_vars(RunIterate)
    /\ WF_vars(AwaitReceive)
    /\ WF_vars(WaitAny)
    /\ WF_vars(send_transfer)
    /\ WF_vars(process_result)
    /\ SF_vars(ResponderReturn)
    /\ SF_vars(CollectPass)

\* Construction alone, over longer ledger answers.
NextRecovery == Construct

SpecRecovery == InitRecovery /\ [][NextRecovery]_vars

TypeOK ==
    /\ pc \in {"new", "top", "await_receive", "wait_any", "send", "process",
               "done", "raised"}
    /\ receive \in {"none", "polling", "done", "failed"}
    /\ result \in {"none", "waiting", "done", "failed"}
    /\ stale_receives \in 0..MaxStale
    /\ \A t \in 1..Len(heap) :
         /\ heap[t].state \in State
         /\ heap[t].future \in {"None", "pending", "True", "False", "raised"}
         /\ heap[t].result \in {"None", "True", "False"}

\* ------------------------------------------------------------- properties
Objects == 1..Len(heap)

Commits(t) == Count(commit_calls, t)

Aborts(t) == Count(abort_calls, t)

InPool(t) == t \in Range(transfers)

InFlight(t) == t \in Range(transfers_sent)

\* C1: for every transfer the engine requests at most one finalization of the
\* Initiator (commits plus aborts <= 1), and it has requested exactly one
\* when, and only when, the transfer has made its COMPLETED->PROCESSED step.
C1_AtMostOneFinalization ==
    \A t \in Objects :
        /\ Commits(t) + Aborts(t) <= 1
        /\ Commits(t) + Aborts(t) = 1 <=> heap[t].state = "PROCESSED"

\* Two transfers finalized, one each way, and run() back at the top of a
\* later iteration.
C1_Witness ==
    /\ pc = "top"
    /\ Len(commit_calls) = 1
    /\ Len(abort_calls) = 1
    /\ \A t \in Objects : heap[t].state = "PROCESSED"

\* C3: for a transfer whose receive returned r, a commit has been requested
\* only if r is true and an abort only if r is false, the stored result is r,
\* and once the transfer is PROCESSED the matching request has been made.
C3_OwnResult ==
    \A t \in Objects :
        heap[t].future \in {"True", "False"} =>
            /\ heap[t].result \in {"None", heap[t].future}
            /\ Commits(t) > 0 => heap[t].future = "True"
            /\ Aborts(t) > 0 => heap[t].future = "False"
            /\ heap[t].state = "PROCESSED" =>
                 /\ Commits(t) = 1 <=> heap[t].future = "True"
                 /\ Aborts(t) = 1 <=> heap[t].future = "False"

\* The Responder answered out of order: the later of two dispatched transfers
\* is committed while the earlier one has failed and is not yet collected.
C3_Witness ==
    \E i, j \in 1..Len(transfers_sent) :
        /\ i < j
        /\ heap[transfers_sent[j]].state = "PROCESSED"
        /\ Commits(transfers_sent[j]) = 1
        /\ heap[transfers_sent[i]].state = "SENT"
        /\ heap[transfers_sent[i]].future = "False"

PendingCount ==
    Cardinality({i \in 1..Len(transfers_sent) :
                    heap[transfers_sent[i]].state \in {"SENT", "COMPLETED"}})

Moved(from, to) ==
    {t \in Objects : heap[t].state = from /\ heap'[t].state = to}

\* C5: at every iteration boundary of run() pending is the number of SENT or
\* COMPLETED transfers in transfers_sent; the constructor sets it to the number
\* of recovered COMPLETED transfers, and every later step changes it by +1 per
\* transfer moved to SENT and -1 per transfer moved to PROCESSED.
C5_PendingCount ==
    /\ [](pc \in {"top", "done", "raised"} => pending = PendingCount)
    /\ [][IF pc = "new"
          THEN pending' = Cardinality({i \in 1..Len(transfers_sent') :
                             heap'[transfers_sent'[i]].state = "COMPLETED"})
          ELSE pending' = pending + Cardinality(Moved("READY", "SENT"))
                                  - Cardinality(Moved("COMPLETED", "PROCESSED"))]_vars

\* The state-aware engine at an iteration boundary with a recovered transfer
\* finalized and an ingested one dispatched and still counted.
C5_Witness ==
    /\ engine = "StateInterledger"
    /\ pc = "top"
    /\ pending = 1
    /\ \E t \in Objects : heap[t].state = "PROCESSED" /\ heap[t].data # 0
    /\ \E t \in Objects : heap[t].state = "SENT" /\ heap[t].data = 0

\* C2: in the plain engine, without stop and with every started receive
\* returning a boolean, every transfer an ingest appended to transfers
\* eventually is PROCESSED with exactly one commit or abort requested.
C2_EveryTransferProcessed ==
    \A t \in 1..MaxTransfers :
        (t \in Objects /\ InPool(t)) ~>
            (t \in Objects /\ heap[t].state = "PROCESSED"
                           /\ Commits(t) + Aborts(t) = 1)

\* C4: a collect pass that meets a SENT transfer whose receive raised takes it
\* as result = false: the pass leaves the transfer COMPLETED with a failing
\* result (from where finalize aborts it).
C4_RaisedIsFalse ==
    [][CollectPass =>
         \A t \in Objects :
            (InFlight(t) /\ heap[t].state = "SENT" /\ heap[t].future = "raised")
               => (heap'[t].state = "COMPLETED" /\ heap'[t].result = "False")]_vars

\* C6 as claimed: a transfer is in transfers iff it is READY, and in
\* transfers_sent iff it is SENT, COMPLETED or PROCESSED.
C6_PoolIffReady ==
    \A t \in Objects :
        /\ InPool(t) <=> heap[t].state = "READY"
        /\ InFlight(t) <=> heap[t].state \in {"SENT", "COMPLETED", "PROCESSED"}

\* C6 amended: a READY transfer is in transfers; a transfer is in
\* transfers_sent iff it is SENT, COMPLETED or PROCESSED, and there once only.
C6_ReadyInPool ==
    \A t \in Objects :
        /\ heap[t].state = "READY" => InPool(t)
        /\ InFlight(t) <=> heap[t].state \in {"SENT", "COMPLETED", "PROCESSED"}
        /\ Count(transfers_sent, t) <= 1

\* A dispatched transfer that dispatch left in transfers next to one that is
\* still READY.
C6_Witness ==
    \E t, u \in Objects :
        /\ InPool(t) /\ InFlight(t) /\ heap[t].state = "SENT"
        /\ InPool(u) /\ ~InFlight(u) /\ heap[u].state = "READY"

\* One step of transfer t, taken by the stage that owns it.
OwnedStep(t) ==
    \/ /\ heap'[t].state = heap[t].state
       /\ heap[t].state = "PROCESSED" => heap'[t] = heap[t]
    \/ /\ heap[t].state = "READY" /\ heap'[t].state = "SENT"
       /\ send_transfer
    \/ /\ heap[t].state = "SENT" /\ heap'[t].state = "COMPLETED"
       /\ CollectPass
    \/ /\ heap[t].state = "COMPLETED" /\ heap'[t].state = "PROCESSED"
       /\ process_result

\* C7 as claimed: every transfer starts READY and then takes the steps
\* READY->SENT, SENT->COMPLETED, COMPLETED->PROCESSED in order, each in its
\* owning stage; a PROCESSED transfer never changes.
C7_PrefixOfLifecycle ==
    [][/\ Len(heap') >= Len(heap)
       /\ \A t \in 1..Len(heap') :
            IF t \in Objects THEN OwnedStep(t) ELSE heap'[t].state = "READY"]_vars

\* C7 amended: as claimed, except that a transfer the state-aware constructor
\* recovers from (TRANSFER_OUT, HERE) starts COMPLETED with result true.
C7_LifecycleFromCreation ==
    [][/\ Len(heap') >= Len(heap)
       /\ \A t \in 1..Len(heap') :
            IF t \in Objects
            THEN OwnedStep(t)
            ELSE \/ heap'[t].state = "READY"
                 \/ /\ heap'[t].state = "COMPLETED" /\ heap'[t].result = "True"
                    /\ Construct /\ engine = "StateInterledger"]_vars

\* A transfer recovered as COMPLETED has been finalized without ever having
\* been READY or SENT, and a transfer recovered as READY has been dispatched
\* and answered by the Responder.
C7_Witness ==
    /\ \E t \in Objects :
         heap[t].data # 0 /\ heap[t].future = "None" /\ heap[t].state = "PROCESSED"
    /\ \E t \in Objects :
         heap[t].data # 0 /\ heap[t].future = "True" /\ heap[t].state = "SENT"

\* C8: a collect operation completes only when some SENT transfer in
\* transfers_sent has a completed receive handle.
C8_CollectWaitsForSent ==
    [][CollectPass =>
         \E t \in Objects :
            InFlight(t) /\ heap[t].state = "SENT" /\ Done(heap[t].future)]_vars

\* C9: when the poll of the current ingest has raised, the next step of run()
\* is to raise to its caller, with no transfer, list or counter changed.
C9_IngestErrorPropagates ==
    [][(receive = "failed" /\ pc' # pc) =>
         (pc' = "raised" /\ UNCHANGED <<heap, transfers, transfers_sent, pending>>)]_vars

Ids(l) == {heap[l[i]].data : i \in 1..Len(l)}

\* C10: after construction of the state-aware engine, transfers holds one
\* READY transfer (no result, no future) per asset id that is in the
\* Initiator's TRANSFER_OUT and the Responder's NOT_HERE answers, transfers_sent
\* one COMPLETED transfer with result true per id in TRANSFER_OUT and HERE,
\* pending is the length of transfers_sent, and there is no other transfer;
\* the contents depend on the answers' elements only.
C10_Recovery ==
    (pc = "top" /\ engine = "StateInterledger") =>
        LET ready == {a \in Assets : /\ \E i \in 1..Len(initiator_out) : initiator_out[i] = a
                                     /\ \E i \in 1..Len(responder_not_here) : responder_not_here[i] = a}
            sent == {a \in Assets : /\ \E i \in 1..Len(initiator_out) : initiator_out[i] = a
                                    /\ \E i \in 1..Len(responder_here) : responder_here[i] = a}
        IN  /\ Ids(transfers) = ready
            /\ Len(transfers) = Cardinality(ready)
            /\ \A i \in 1..Len(transfers) :
                 /\ heap[transfers[i]].state = "READY"
                 /\ heap[transfers[i]].result = "None"
                 /\ heap[transfers[i]].future = "None"
            /\ Ids(transfers_sent) = sent
            /\ Len(transfers_sent) = Cardinality(sent)
            /\ \A i \in 1..Len(transfers_sent) :
                 /\ heap[transfers_sent[i]].state = "COMPLETED"
                 /\ heap[transfers_sent[i]].result = "True"
            /\ pending = Cardinality(sent)
            /\ Len(heap) = Cardinality(ready) + Cardinality(sent)
            /\ Range(transfers) \cap Range(transfers_sent) = {}
            /\ Cardinality(Range(transfers) \cup Range(transfers_sent)) = Len(heap)

\* Answers that repeat an id: the Initiator reports asset 2 twice and asset 2
\* only, the Responder reports it NOT_HERE next to another asset, and HERE
\* twice; one transfer is recovered into each list.
C10_Witness ==
    /\ pc = "top"
    /\ initiator_out = <<2, 2>>
    /\ responder_not_here = <<2, 3>>
    /\ responder_here = <<2, 2>>
    /\ Len(transfers) = 1
    /\ Len(transfers_sent) = 1

\* A transfer record that recovery built: it carries the asset id it was built
\* for (records the Initiator's poll delivers carry none in this model).
Recovered(t) == heap[t].data # 0

\* C11: once run() of the state-aware engine is started and not stopped, every
\* READY transfer that recovery placed in transfers eventually is SENT with a
\* receive started on the Responder, whatever else recovery produced and
\* whether or not the Initiator's poll ever returns.
C11_RecoveredReadyDispatched ==
    \A t \in 1..MaxTransfers :
        (pc # "new" /\ t \in Objects /\ Recovered(t) /\ InPool(t)
                    /\ heap[t].state = "READY") ~>
            (t \in Objects /\ heap[t].state # "READY"
                           /\ heap[t].future # "None" /\ InFlight(t))

\* A transfer that recovery placed in transfers_sent: built COMPLETED, with no
\* receive started for it.
RecoveredSent(t) == Recovered(t) /\ InFlight(t) /\ heap[t].future = "None"

\* C12: the first iteration of run() commits every COMPLETED transfer that
\* recovery placed in transfers_sent.  While one of them is not yet finalized
\* run() is never blocked: it is before its first iteration, or in it with the
\* wait on ingest-or-collect already over (the collect has completed, the poll
\* need not), or it was stopped before iterating.  The finalize that ends the
\* iteration leaves each of them PROCESSED with one commit and no abort
\* requested, and pending at 0 when nothing else is SENT.
C12_RecoveredSentCommitted ==
    /\ [](\A t \in Objects :
            (RecoveredSent(t) /\ heap[t].state = "COMPLETED") =>
               /\ pc \in {"top", "wait_any", "send", "process", "done"}
               /\ pc = "wait_any" => result = "failed"
               /\ Commits(t) = 0 /\ Aborts(t) = 0)
    /\ [][process_result =>
            \A t \in Objects :
               RecoveredSent(t) =>
                  /\ heap'[t].state = "PROCESSED"
                  /\ Count(commit_calls', t) = 1
                  /\ Count(abort_calls', t) = 0
                  /\ (\A u \in Objects : heap'[u].state # "SENT") => pending' = 0]_vars

\* the first iteration is over, the poll has delivered nothing, and the
\* recovered transfer is committed
C12_Witness ==
    /\ pc = "top"
    /\ pending = 0
    /\ \A u \in Objects : Recovered(u)
    /\ \E t \in Objects : /\ RecoveredSent(t)
                          /\ heap[t].state = "PROCESSED"
                          /\ Commits(t) = 1
                          /\ Aborts(t) = 0

\* C13: after construction of the state-aware engine, whatever the adapters
\* answered to query_by_state, no asset id is carried by two transfer records
\* of transfers and transfers_sent together.
C13_NoDuplicateAsset ==
    (engine = "StateInterledger" /\ pc # "new") =>
        \A t, u \in Range(transfers) \cup Range(transfers_sent) :
            heap[t].data = heap[u].data => t = u

\* C14: stop changes keep_running and nothing else.  Once it is called the
\* flag stays false and run() starts no further ingest or collect; an
\* iteration that is under way goes on through its blocking wait, its dispatch
\* and its finalize, one after the other, to the loop test, which ends run();
\* after that run() dispatches and finalizes nothing.
C14_StopEndsLoop ==
    [][/\ (keep_running /\ ~keep_running' /\ pc # "new") =>
             UNCHANGED <<ledger, heap, lists, debug, pc, tasks>>
       /\ (~keep_running /\ pc # "new") =>
             /\ ~keep_running'
             /\ receive # "polling" => receive' # "polling"
             /\ result = "none" => result' = "none"
             /\ pc = "send" => pc' \in {"send", "process"}
             /\ pc = "process" => pc' \in {"process", "top"}
             /\ pc = "top" => pc' \in {"top", "done"}
             /\ pc \in {"done", "raised"} =>
                   /\ pc' = pc
                   /\ UNCHANGED <<transfers_sent, pending, debug>>]_vars

\* run() has ended after a stop, and the receive of a transfer it dispatched
\* is still outstanding
C14_Witness ==
    /\ pc = "done"
    /\ ~keep_running
    /\ \E t \in Objects : /\ heap[t].state = "SENT"
                          /\ heap[t].future = "pending"
                          /\ InFlight(t)

\* C15: a commit or an abort is requested for a transfer only after its
\* receive call on the Responder has completed; none is requested for a
\* transfer whose receive was not started or is still outstanding.
C15_FinalizeAfterReceive ==
    \A t \in Objects :
        Commits(t) + Aborts(t) > 0 => Done(heap[t].future)

\* C15 as the code has it: the same for every transfer the engine dispatched;
\* a transfer that recovery built COMPLETED has no receive call in this run
\* and is committed, never aborted, without one.
C15_FinalizeAfterReceiveOrRecovered ==
    \A t \in Objects :
        Commits(t) + Aborts(t) > 0 =>
            \/ Done(heap[t].future)
            \/ RecoveredSent(t) /\ Aborts(t) = 0

\* a dispatched transfer whose receive returned false has been aborted
C15_Witness ==
    \E t \in Objects : /\ heap[t].future = "False"
                       /\ heap[t].state = "PROCESSED"
                       /\ Aborts(t) = 1
                       /\ Commits(t) = 0

\* C16: in the plain engine, when an iteration of run() is over (its finalize
\* has returned and run() is back at the loop test, no ingest of the next
\* iteration started yet), transfers holds no READY transfer and
\* transfers_sent holds no COMPLETED one.
C16_IterationDrains ==
    pc = "top" =>
        /\ \A t \in Range(transfers) : heap[t].state # "READY"
        /\ \A t \in Range(transfers_sent) : heap[t].state # "COMPLETED"

\* C17: a collect pass leaves COMPLETED, with its handle's result, every
\* transfer of transfers_sent that was SENT with a receive that returned;
\* a transfer whose receive raised does not keep the pass from the others.
C17_PassCollectsEveryDone ==
    [][CollectPass =>
         \A t \in Objects :
            (InFlight(t) /\ heap[t].state = "SENT"
                         /\ heap[t].future \in {"True", "False"})
               => (heap'[t].state = "COMPLETED"
                      /\ heap'[t].result = heap[t].future)]_vars

\* C18: in the state-aware engine whose recovery placed a COMPLETED transfer
\* in transfers_sent, with no stop and fair scheduling, a transfer that a poll
\* delivered and whose receive returned a boolean eventually is collected and
\* then PROCESSED with exactly one commit or abort requested.
C18_LaterTrafficCollected ==
    \A t \in 1..MaxTransfers :
        (/\ t \in Objects /\ ~Recovered(t)
         /\ heap[t].state = "SENT" /\ heap[t].future \in {"True", "False"}
         /\ \E u \in Objects : RecoveredSent(u)) ~>
            (t \in Objects /\ heap[t].state = "PROCESSED"
                           /\ Commits(t) + Aborts(t) = 1)

\* C19: whenever run() starts a collect (the iteration finds pending # 0),
\* transfers_sent holds at least one transfer that is SENT with its receive
\* handle set.
C19_CollectHasSent ==
    [][(RunIterate /\ pending # 0) =>
          \E t \in Range(transfers_sent) :
              heap[t].state = "SENT" /\ heap[t].future # "None"]_vars

\* the receive_transfer() tasks whose poll is outstanding, and the
\* transfer_result() tasks that are waiting: those of this iteration and those
\* that earlier iterations left behind
OutstandingReceives == (IF receive = "polling" THEN 1 ELSE 0) + stale_receives

OutstandingResults == (IF result = "waiting" THEN 1 ELSE 0) + Cardinality(stale_results)

\* C20: at any time at most one ingest and at most one collect that run()
\* started is outstanding.
C20_OneIngestOneCollect ==
    OutstandingReceives <= 1 /\ OutstandingResults <= 1

====
